---- MODULE Spec2Model ----
(***************************************************************************)
(* Model of check_google_credentials.py: the GenAI diagnostic / model      *)
(* lister.  main() is a straight-line sequence of calls into the auth      *)
(* library and the model-catalog client; the model follows it statement by *)
(* statement (pc), with the external collaborators' outcomes chosen        *)
(* nondeterministically.                                                   *)
(*                                                                         *)
(* Python str values are sequences of one-character strings, so that       *)
(* str.lower() / str.upper() are computed, and None is a value distinct    *)
(* from every str.                                                         *)
(***************************************************************************)
EXTENDS Integers, Sequences, FiniteSets, TLC

\* ------------------------------------------------------------- bounds
\* Most descriptors the catalog iterator yields in one listing.
MaxModels == 2
\* Most names one dump_env_vars(*names) call is given.
MaxNames == 2
\* Most describe_credentials calls of one behaviour of SpecDescribe.
MaxCalls == 3

\* ------------------------------------------------------- Python values
\* None: a one-element tuple holding a four-letter string; no str (a tuple of
\* one-character strings) and no list of method names equals it.
None == <<"None">>

\* Python truthiness of an Optional[str] / Optional[list]: None, "" and []
\* are falsy.
Falsy(x) == x = None \/ x = <<>>

\* Python `a or b`.
Or(a, b) == IF Falsy(a) THEN b ELSE a

Uppers == <<"A","B","C","D","E","F","G","H","I","J","K","L","M",
            "N","O","P","Q","R","S","T","U","V","W","X","Y","Z">>
Lowers == <<"a","b","c","d","e","f","g","h","i","j","k","l","m",
            "n","o","p","q","r","s","t","u","v","w","x","y","z">>

LowerChar(c) ==
    IF \E i \in 1..26 : Uppers[i] = c
    THEN Lowers[CHOOSE i \in 1..26 : Uppers[i] = c]
    ELSE c

UpperChar(c) ==
    IF \E i \in 1..26 : Lowers[i] = c
    THEN Uppers[CHOOSE i \in 1..26 : Lowers[i] = c]
    ELSE c

\* str.lower() and str.upper()
Lower(s) == [i \in 1..Len(s) |-> LowerChar(s[i])]
Upper(s) == [i \in 1..Len(s) |-> UpperChar(s[i])]

\* str literals of the program
UsWest2 == <<"u","s","-","w","e","s","t","2">>
StrTrue == <<"t","r","u","e">>
StrInfo == <<"I","N","F","O">>
\* {"1", "true", "yes"}
TruthySpellings == { <<"1">>, <<"t","r","u","e">>, <<"y","e","s">> }

\* Level names logging.Logger.setLevel accepts; any other str raises ValueError.
LevelNames ==
    { <<"C","R","I","T","I","C","A","L">>, <<"F","A","T","A","L">>,
      <<"E","R","R","O","R">>, <<"W","A","R","N">>,
      <<"W","A","R","N","I","N","G">>, <<"I","N","F","O">>,
      <<"D","E","B","U","G">>, <<"N","O","T","S","E","T">> }

\* ------------------------------------------------------- input universes
Demo == <<"d","e","m","o">>
FlagProject == <<"p","1">>
AdcProject == <<"a","d","c">>
FlagLocation == <<"e","u">>
EnvLocation == <<"a","s","i","a">>

EnvNames ==
    { "GOOGLE_GENAI_USE_VERTEXAI", "GOOGLE_CLOUD_PROJECT", "GOOGLE_CLOUD_LOCATION",
      "GOOGLE_APPLICATION_CREDENTIALS", "GOOGLE_API_KEY", "HOME" }

\* Environments main() is run in.  A variable that is not set is None.
MainEnvs ==
    { e \in [EnvNames -> {None, <<>>, Demo, EnvLocation, <<"Y","E","S">>, <<"0">>}] :
        /\ e["GOOGLE_GENAI_USE_VERTEXAI"] \in {None, <<"Y","E","S">>, <<"0">>}
        /\ e["GOOGLE_CLOUD_PROJECT"] \in {None, <<>>, Demo}
        /\ e["GOOGLE_CLOUD_LOCATION"] \in {None, EnvLocation}
        /\ e["GOOGLE_APPLICATION_CREDENTIALS"] = None
        /\ e["GOOGLE_API_KEY"] = None
        /\ e["HOME"] = None }

\* Command lines: a flag that is not given is None (store_true flags: FALSE);
\* unknown is an option argparse does not know.
Argvs ==
    [ project : {None, <<>>, FlagProject},
      location : {None, FlagLocation},
      vertexai : BOOLEAN,
      log_level : {None, <<"d","e","b","u","g">>, <<"b","o","g","u","s">>},
      verbose_errors : BOOLEAN,
      unknown : BOOLEAN ]

\* Credential classes: the three the program names, one unrelated class that
\* google.auth.default() may also return, and subclasses.
SACreds == "google.oauth2.service_account.Credentials"
UserCreds == "google.oauth2.credentials.Credentials"
GCECreds == "google.auth.compute_engine.Credentials"
ImpersonatedCreds == "google.auth.impersonated_credentials.Credentials"

Classes ==
    { SACreds, UserCreds, GCECreds, ImpersonatedCreds,
      "DomainWideServiceAccount", "CachedUserCredentials", "GKEMetadataCredentials",
      "UserOnComputeCredentials" }

\* Direct base classes (below google.auth.credentials.Credentials).
Bases(cls) ==
    CASE cls = "DomainWideServiceAccount" -> {SACreds}
      [] cls = "CachedUserCredentials" -> {UserCreds}
      [] cls = "GKEMetadataCredentials" -> {GCECreds}
      [] cls = "UserOnComputeCredentials" -> {UserCreds, GCECreds}
      [] OTHER -> {}

\* type(creds).__name__
TypeName(cls) ==
    IF cls \in {SACreds, UserCreds, GCECreds, ImpersonatedCreds} THEN "Credentials" ELSE cls

\* The classes google.auth.default() returns instances of.
DefaultClasses == {SACreds, UserCreds, GCECreds, ImpersonatedCreds}

\* Model descriptors: display_name and name always, the two capability fields
\* only when the SDK version exposes them (attrs).
GenerateContent == <<"generateContent">>
EmbedContent == <<"embedContent">>
Placeholder == <<"?">>

Descriptor(dn, n, a) == [display_name |-> dn, name |-> n, attrs |-> a]

\* Every shape of the two capability fields: absent, None, [] or a method list.
FieldValues(f) ==
    {None, <<>>, IF f = "supported_generation_methods" THEN GenerateContent ELSE EmbedContent}

ShapeCatalog ==
    { Descriptor("Gemini", "models/gemini", a) :
        a \in UNION { { g \in [d -> {None, <<>>, GenerateContent, EmbedContent}] :
                          \A f \in d : g[f] \in FieldValues(f) } :
                      d \in SUBSET {"supported_generation_methods", "generation_methods"} } }

\* The catalog main() is run against: one descriptor of each SDK generation.
MainCatalog ==
    { Descriptor("Gemini", "models/gemini",
                 [f \in {"supported_generation_methods"} |-> GenerateContent]),
      Descriptor("Bison", "models/bison",
                 [f \in {"generation_methods"} |-> EmbedContent]) }

\* Outcomes of the external calls.
RefreshOutcomes == {"ok", "RefreshError", "TransportError"}
ClientErrors == {"ValueError"}
IterErrors == {"APIError"}

\* ---------------------------------------------------------------- state
VARIABLES
    entry,        \* the function the run entered: "main" or one called directly
    pc,           \* position in that function
    argv,         \* command line
    env,          \* os.environ
    args,         \* argparse.Namespace (None before parse_args returns)
    creds,        \* class of the credential object ("" before resolution)
    adc_project,  \* project google.auth.default() inferred
    project,      \* main's local `project`
    names,        \* dump_env_vars' *names
    catalog,      \* descriptors the catalog service holds
    yielded,      \* descriptors client.models.list() has yielded so far
    log,          \* records handed to logger.info / error / exception
    calls,        \* external steps invoked so far, in order
    raised,       \* what creds.refresh / list_models raised in this run
    outcome       \* running, returned (with the value) or raised (with the exception)

vars == << entry, pc, argv, env, args, creds, adc_project, project, names,
           catalog, yielded, log, calls, raised, outcome >>

Running == [kind |-> "running", code |-> -1, exc |-> ""]
Return(c) == [kind |-> "return", code |-> c, exc |-> ""]
\* a function without a return statement
ReturnNone == [kind |-> "return None", code |-> -1, exc |-> ""]
Raise(e) == [kind |-> "raise", code |-> -1, exc |-> e]

NoArgv ==
    [project |-> None, location |-> None, vertexai |-> FALSE, log_level |-> None,
     verbose_errors |-> FALSE, unknown |-> FALSE]
NoArgs ==
    [project |-> None, location |-> None, vertexai |-> FALSE, log_level |-> None,
     verbose_errors |-> FALSE]
NoEnv == [n \in EnvNames |-> None]
NoRaise == [refresh |-> "", list |-> ""]

\* ------------------------------------------------------------- logging
Info(m, a) == [lvl |-> "INFO", msg |-> m, args |-> a, tb |-> FALSE]
\* logger.error(...)
Error(m, a) == [lvl |-> "ERROR", msg |-> m, args |-> a, tb |-> FALSE]
\* logger.exception(...): an ERROR record with the traceback
Exception(m, a) == [lvl |-> "ERROR", msg |-> m, args |-> a, tb |-> TRUE]

\* if args.verbose_errors: logger.exception(...) else: logger.error(...)
LogFailure(verbose, m, exc) == IF verbose THEN Exception(m, <<exc>>) ELSE Error(m, <<exc>>)

\* ---------------------------------------------------- dump_env_vars
DefaultNames ==
    << "GOOGLE_GENAI_USE_VERTEXAI", "GOOGLE_CLOUD_PROJECT", "GOOGLE_CLOUD_LOCATION",
       "GOOGLE_APPLICATION_CREDENTIALS", "GOOGLE_API_KEY" >>

\* os.getenv(name): None when the variable is not set
Getenv(e, n) == IF n \in DOMAIN e THEN e[n] ELSE None

\* os.getenv(name, default)
GetenvOr(e, n, dflt) == IF Getenv(e, n) = None THEN dflt ELSE Getenv(e, n)

\* Mutant of NamesUsed: the names given are ignored.
NamesUsedAlwaysDefault(ns) == DefaultNames

\* `if not names: names = (...)`
NamesUsed(ns) == IF ns = <<>> THEN DefaultNames ELSE ns

\* The records dump_env_vars(*ns) logs: the heading, then one per name.
DumpEnvVars(ns, e) ==
    << Info("Environment variables:", <<>>) >> \o
    [ i \in 1..Len(NamesUsed(ns)) |->
        Info("  %-35s = %r", << NamesUsed(ns)[i], Getenv(e, NamesUsed(ns)[i]) >>) ]

\* ----------------------------------------------- describe_credentials
RECURSIVE Ancestors(_)
\* the class and every class it derives from
Ancestors(cls) == {cls} \cup UNION { Ancestors(b) : b \in Bases(cls) }

IsInstance(cls, of) == of \in Ancestors(cls)

\* Mutant of DescribeMsg: `type(creds) is X` in place of isinstance.
DescribeMsgExactType(cls) ==
    IF cls = SACreds THEN << "service-account key file" >>
    ELSE IF cls = UserCreds THEN << "gcloud user (OAuth) credentials" >>
    ELSE IF cls = GCECreds THEN << "Compute Engine / metadata-server credentials" >>
    ELSE << "unknown credentials", TypeName(cls) >>

\* the if / elif chain choosing msg
DescribeMsg(cls) ==
    IF IsInstance(cls, SACreds) THEN << "service-account key file" >>
    ELSE IF IsInstance(cls, UserCreds) THEN << "gcloud user (OAuth) credentials" >>
    ELSE IF IsInstance(cls, GCECreds)
         THEN << "Compute Engine / metadata-server credentials" >>
    ELSE << "unknown credentials", TypeName(cls) >>

\* The records describe_credentials(creds) logs.
DescribeCredentials(cls) == << Info("Using %s", << DescribeMsg(cls) >>) >>

\* -------------------------------------------------------- list_models
\* getattr(model, field, default)
GetAttr(model, f, dflt) == IF f \in DOMAIN model.attrs THEN model.attrs[f] ELSE dflt

Methods(model) ==
    Or(Or(GetAttr(model, "supported_generation_methods", None),
          GetAttr(model, "generation_methods", None)),
       Placeholder)

ModelLine(model) ==
    Info("%s (%s) methods=%s", << model.display_name, model.name, Methods(model) >>)

\* --------------------------------------------------------- parse_args
\* Mutant of DefaultProject: the environment default is forgotten.
DefaultProjectMissing(e) == None

\* default of --project
DefaultProject(e) == Getenv(e, "GOOGLE_CLOUD_PROJECT")

\* Mutant of DefaultLocation: the environment default is forgotten.
DefaultLocationFixed(e) == UsWest2

\* default of --location
DefaultLocation(e) == GetenvOr(e, "GOOGLE_CLOUD_LOCATION", UsWest2)

\* Mutant of DefaultVertexai: the comparison is case-sensitive (no .lower()).
DefaultVertexaiCaseSensitive(e) ==
    GetenvOr(e, "GOOGLE_GENAI_USE_VERTEXAI", StrTrue) \in TruthySpellings

\* default of --vertexai
DefaultVertexai(e) ==
    Lower(GetenvOr(e, "GOOGLE_GENAI_USE_VERTEXAI", StrTrue)) \in TruthySpellings

\* The Namespace parse_args returns for a command line it accepts.
ParseArgs(av, e) ==
    [ project |-> IF av.project # None THEN av.project ELSE DefaultProject(e),
      location |-> IF av.location # None THEN av.location ELSE DefaultLocation(e),
      vertexai |-> IF av.vertexai THEN TRUE ELSE DefaultVertexai(e),
      log_level |-> IF av.log_level # None THEN av.log_level ELSE StrInfo,
      verbose_errors |-> av.verbose_errors ]

\* --------------------------------------------------------------- main
\* Mutant of RefreshCaught: the handler names the wrong exception class.
RefreshCaughtTransportOnly(exc) == exc = "TransportError"

\* `except RefreshError`
RefreshCaught(exc) == exc = "RefreshError"

\* Mutant of ListCaught: the handler is as narrow as the one around refresh.
ListCaughtRefreshOnly(exc) == exc = "RefreshError"

\* `except Exception` around list_models
ListCaught(exc) == TRUE

\* Mutant of NoProject: `if project is None`.
NoProjectNoneOnly(p) == p = None

\* `if not project`
NoProject(p) == Falsy(p)

\* Mutant of OnRefreshError: the handler retries the refresh.
OnRefreshErrorRetry == "refresh"

\* After the RefreshError handler main goes on to the model listing.
OnRefreshError == "list_models"

Done(o) ==
    /\ pc' = "done"
    /\ outcome' = o

\* args = parse_args(argv)
MainParseArgs ==
    /\ entry = "main" /\ pc = "parse_args"
    /\ IF argv.unknown
       THEN /\ Done(Raise("SystemExit"))
            /\ UNCHANGED args
       ELSE /\ args' = ParseArgs(argv, env)
            /\ pc' = "setLevel"
            /\ UNCHANGED outcome
    /\ UNCHANGED << entry, argv, env, creds, adc_project, project, names,
                    catalog, yielded, log, calls, raised >>

\* logging.getLogger().setLevel(args.log_level.upper())
MainSetLevel ==
    /\ entry = "main" /\ pc = "setLevel"
    /\ IF Upper(args.log_level) \in LevelNames
       THEN pc' = "auth_default" /\ UNCHANGED outcome
       ELSE Done(Raise("ValueError"))
    /\ UNCHANGED << entry, argv, env, args, creds, adc_project, project, names,
                    catalog, yielded, log, calls, raised >>

\* creds, adc_project = google.auth.default()
MainAuthDefault ==
    /\ entry = "main" /\ pc = "auth_default"
    /\ calls' = Append(calls, << "google.auth.default" >>)
    /\ \/ /\ Done(Raise("DefaultCredentialsError"))
          /\ UNCHANGED << creds, adc_project >>
       \/ /\ creds' \in DefaultClasses
          /\ adc_project' \in {None, <<>>, AdcProject}
          /\ pc' = "describe_credentials"
          /\ UNCHANGED outcome
    /\ UNCHANGED << entry, argv, env, args, project, names,
                    catalog, yielded, log, raised >>

\* describe_credentials(creds)
MainDescribe ==
    /\ entry = "main" /\ pc = "describe_credentials"
    /\ calls' = Append(calls, << "describe_credentials", creds >>)
    /\ log' = log \o DescribeCredentials(creds)
    /\ pc' = "resolve_project"
    /\ UNCHANGED << entry, argv, env, args, creds, adc_project, project, names,
                    catalog, yielded, raised, outcome >>

\* project = args.project or adc_project; if not project: ... return 0
MainResolveProject ==
    /\ entry = "main" /\ pc = "resolve_project"
    /\ project' = Or(args.project, adc_project)
    /\ IF NoProject(project')
       THEN /\ log' = Append(log, Error("No project could be determined", <<>>))
            /\ Done(Return(0))
       ELSE /\ pc' = "dump_env_vars"
            /\ UNCHANGED << log, outcome >>
    /\ UNCHANGED << entry, argv, env, args, creds, adc_project, names,
                    catalog, yielded, calls, raised >>

\* dump_env_vars()
MainDumpEnv ==
    /\ entry = "main" /\ pc = "dump_env_vars"
    /\ calls' = Append(calls, << "dump_env_vars" >>)
    /\ log' = log \o DumpEnvVars(<<>>, env)
    /\ pc' = "refresh"
    /\ UNCHANGED << entry, argv, env, args, creds, adc_project, project, names,
                    catalog, yielded, raised, outcome >>

\* try: creds.refresh(Request()) except RefreshError as exc: ...
MainRefresh ==
    /\ entry = "main" /\ pc = "refresh"
    /\ calls' = Append(calls, << "refresh" >>)
    /\ \E r \in RefreshOutcomes :
         IF r = "ok"
         THEN /\ pc' = "list_models"
              /\ UNCHANGED << log, raised, outcome >>
         ELSE /\ raised' = [raised EXCEPT !.refresh = r]
              /\ IF RefreshCaught(r)
                 THEN /\ log' = Append(log, LogFailure(args.verbose_errors,
                                          "Failed to refresh credentials: %s", r))
                      /\ pc' = OnRefreshError
                      /\ UNCHANGED outcome
                 ELSE /\ Done(Raise(r))
                      /\ UNCHANGED log
    /\ UNCHANGED << entry, argv, env, args, creds, adc_project, project, names,
                    catalog, yielded >>

\* An exception e leaves list_models: main's `except Exception` logs it and
\* falls through to `return 0`; a direct caller sees it.
ListRaises(e) ==
    /\ raised' = [raised EXCEPT !.list = e]
    /\ IF entry = "main" /\ ListCaught(e)
       THEN /\ log' = Append(log, LogFailure(args.verbose_errors,
                                "Unexpected error while listing models: %s", e))
            /\ pc' = "return"
            /\ UNCHANGED outcome
       ELSE /\ Done(Raise(e))
            /\ UNCHANGED log

\* list_models returns: main goes on to `return 0`.
ListReturns ==
    IF entry = "main"
    THEN pc' = "return" /\ UNCHANGED outcome
    ELSE Done(ReturnNone)

\* list_models(project=project, location=args.location, vertexai=args.vertexai):
\* client = genai.Client(...); logger.info("Available models:")
ListModelsCall ==
    /\ pc = "list_models"
    /\ calls' = Append(calls, << "list_models", project, args.location, args.vertexai >>)
    /\ \/ \E e \in ClientErrors : ListRaises(e)
       \/ /\ log' = Append(log, Info("Available models:", <<>>))
          /\ pc' = "list_iter"
          /\ UNCHANGED << raised, outcome >>
    /\ UNCHANGED << entry, argv, env, args, creds, adc_project, project, names,
                    catalog, yielded >>

\* for model in client.models.list(): one step of the lazy iterator, which
\* yields the next descriptor (logged at once), ends, or raises.
ListModelsIter ==
    /\ pc = "list_iter"
    /\ \/ /\ Len(yielded) < MaxModels
          /\ \E m \in catalog :
               /\ yielded' = Append(yielded, m)
               /\ log' = Append(log, ModelLine(m))
          /\ UNCHANGED << pc, raised, outcome >>
       \/ /\ ListReturns
          /\ UNCHANGED << yielded, log, raised >>
       \/ /\ \E e \in IterErrors : ListRaises(e)
          /\ UNCHANGED yielded
    /\ UNCHANGED << entry, argv, env, args, creds, adc_project, project, names,
                    catalog, calls >>

\* return 0
MainReturn ==
    /\ entry = "main" /\ pc = "return"
    /\ Done(Return(0))
    /\ UNCHANGED << entry, argv, env, args, creds, adc_project, project, names,
                    catalog, yielded, log, calls, raised >>

\* ------------------------------------------------------ specifications
\* main(argv), run once in some environment against the two-model catalog.
Init ==
    /\ entry = "main" /\ pc = "parse_args"
    /\ argv \in Argvs
    /\ env \in MainEnvs
    /\ args = NoArgs
    /\ creds = ""
    /\ adc_project = None
    /\ project = None
    /\ names = <<>>
    /\ catalog = MainCatalog
    /\ yielded = <<>>
    /\ log = <<>>
    /\ calls = <<>>
    /\ raised = NoRaise
    /\ outcome = Running

Next ==
    \/ MainParseArgs
    \/ MainSetLevel
    \/ MainAuthDefault
    \/ MainDescribe
    \/ MainResolveProject
    \/ MainDumpEnv
    \/ MainRefresh
    \/ ListModelsCall
    \/ ListModelsIter
    \/ MainReturn

Spec == Init /\ [][Next]_vars

\* list_models(project, location, vertexai) called directly, against a catalog
\* holding every shape of descriptor.
InitList ==
    /\ entry = "list_models" /\ pc = "list_models"
    /\ argv = NoArgv
    /\ env = NoEnv
    /\ args \in { [NoArgs EXCEPT !.location = UsWest2, !.vertexai = v] : v \in BOOLEAN }
    /\ creds = ""
    /\ adc_project = None
    /\ project = Demo
    /\ names = <<>>
    /\ catalog = ShapeCatalog
    /\ yielded = <<>>
    /\ log = <<>>
    /\ calls = <<>>
    /\ raised = NoRaise
    /\ outcome = Running

NextList ==
    \/ ListModelsCall
    \/ ListModelsIter

SpecList == InitList /\ [][NextList]_vars

\* describe_credentials(creds) called directly, up to MaxCalls times, each time
\* on a credential of any class.
DescribeCall ==
    /\ entry = "describe_credentials" /\ pc = "describe_credentials"
    /\ Len(calls) < MaxCalls
    /\ \E c \in Classes :
         /\ creds' = c
         /\ calls' = Append(calls, << "describe_credentials", c >>)
         /\ log' = log \o DescribeCredentials(c)
    /\ outcome' = ReturnNone
    /\ UNCHANGED << entry, pc, argv, env, args, adc_project, project, names,
                    catalog, yielded, raised >>

InitDescribe ==
    /\ entry = "describe_credentials" /\ pc = "describe_credentials"
    /\ argv = NoArgv
    /\ env = NoEnv
    /\ args = NoArgs
    /\ creds = ""
    /\ adc_project = None
    /\ project = None
    /\ names = <<>>
    /\ catalog = {}
    /\ yielded = <<>>
    /\ log = <<>>
    /\ calls = <<>>
    /\ raised = NoRaise
    /\ outcome = Running

NextDescribe == DescribeCall

SpecDescribe == InitDescribe /\ [][NextDescribe]_vars

\* dump_env_vars(*names) called directly with up to MaxNames names, set or not.
DumpNames == EnvNames \cup {"NO_SUCH_VARIABLE"}

DumpEnvs == [EnvNames -> {None, <<"x">>}]

DumpCall ==
    /\ entry = "dump_env_vars" /\ pc = "dump_env_vars"
    /\ calls' = Append(calls, << "dump_env_vars" >>)
    /\ log' = log \o DumpEnvVars(names, env)
    /\ Done(ReturnNone)
    /\ UNCHANGED << entry, argv, env, args, creds, adc_project, project, names,
                    catalog, yielded, raised >>

InitDump ==
    /\ entry = "dump_env_vars" /\ pc = "dump_env_vars"
    /\ argv = NoArgv
    /\ env \in DumpEnvs
    /\ args = NoArgs
    /\ creds = ""
    /\ adc_project = None
    /\ project = None
    /\ names \in UNION { [1..n -> DumpNames] : n \in 0..MaxNames }
    /\ catalog = {}
    /\ yielded = <<>>
    /\ log = <<>>
    /\ calls = <<>>
    /\ raised = NoRaise
    /\ outcome = Running

NextDump == DumpCall

SpecDump == InitDump /\ [][NextDump]_vars

\* ------------------------------------------------------------- claims
LogIdx(m) == { i \in 1..Len(log) : log[i].msg = m }
CallsOf(n) == { i \in 1..Len(calls) : calls[i][1] = n }
ModelLines == SelectSeq(log, LAMBDA r : r.msg = "%s (%s) methods=%s")
AuthResolved == entry = "main" /\ creds # ""

\* C1: once argument parsing and google.auth.default() have succeeded, main()
\* ends by returning 0 on every path: no exception escapes it.
C1_AlwaysReturnsZero ==
    (AuthResolved /\ pc = "done") => outcome = Return(0)

\* C2: when the model listing raises (constructing the client or part-way
\* through the iteration), main() logs exactly one "Unexpected error while
\* listing models" error, no exception escapes and it returns 0, and the model
\* lines logged are exactly the descriptors yielded before the failure, in order.
C2_ListingFailureSwallowed ==
    (entry = "main" /\ raised.list # "") =>
        /\ pc \in {"return", "done"}
        /\ outcome = IF pc = "done" THEN Return(0) ELSE Running
        /\ Cardinality(LogIdx("Unexpected error while listing models: %s")) = 1
        /\ \A i \in LogIdx("Unexpected error while listing models: %s") :
             /\ log[i].lvl = "ERROR"
             /\ log[i].args = << raised.list >>
             /\ i = Len(log)
        /\ Len(ModelLines) = Len(yielded)
        /\ \A i \in 1..Len(yielded) :
             /\ ModelLines[i].args[1] = yielded[i].display_name
             /\ ModelLines[i].args[2] = yielded[i].name

C2_Witness ==
    /\ entry = "main" /\ pc = "done"
    /\ raised.list = "APIError"
    /\ Len(yielded) = 2
    /\ yielded[1].name = "models/bison" /\ yielded[2].name = "models/gemini"
    /\ outcome = Return(0)

\* C3: when a project was resolved and creds.refresh raises RefreshError, main()
\* logs the refresh failure and goes on to invoke list_models exactly once, after
\* the refresh, with the resolved project, args.location and args.vertexai.
C3_RefreshErrorStillLists ==
    (entry = "main" /\ raised.refresh = "RefreshError") =>
        /\ Cardinality(LogIdx("Failed to refresh credentials: %s")) = 1
        /\ \A i \in LogIdx("Failed to refresh credentials: %s") :
             log[i].lvl = "ERROR" /\ log[i].args = << "RefreshError" >>
        /\ Cardinality(CallsOf("list_models")) <= 1
        /\ pc # "list_models" => Cardinality(CallsOf("list_models")) = 1
        /\ \A i \in CallsOf("list_models") :
             /\ \E j \in CallsOf("refresh") : j < i
             /\ calls[i][2] = Or(args.project, adc_project)
             /\ ~Falsy(calls[i][2])
             /\ calls[i][3] = args.location
             /\ calls[i][4] = args.vertexai

C3_Witness ==
    /\ entry = "main" /\ pc = "done"
    /\ raised.refresh = "RefreshError" /\ raised.list = ""
    /\ Cardinality(CallsOf("list_models")) = 1
    /\ Len(yielded) = 2
    /\ outcome = Return(0)

\* The value --project has after parsing as the command line and environment
\* give it: the flag's value when the flag is given, else $GOOGLE_CLOUD_PROJECT.
GivenProject == IF argv.project # None THEN argv.project ELSE env["GOOGLE_CLOUD_PROJECT"]

ExactTypeLabel(cls) ==
    CASE cls = SACreds -> << "service-account key file" >>
      [] cls = UserCreds -> << "gcloud user (OAuth) credentials" >>
      [] cls = GCECreds -> << "Compute Engine / metadata-server credentials" >>
      [] OTHER -> << "unknown credentials", TypeName(cls) >>

FirstExposed(m) ==
    IF "supported_generation_methods" \in DOMAIN m.attrs
    THEN m.attrs["supported_generation_methods"]
    ELSE IF "generation_methods" \in DOMAIN m.attrs
         THEN m.attrs["generation_methods"]
         ELSE Placeholder

\* C6: for every descriptor the capability value list_models logs is the value
\* of supported_generation_methods if the descriptor exposes that field, else
\* the value of generation_methods if it exposes that one, else "?", whatever
\* value the field holds (an empty list included).
C6_FirstExposedField ==
    entry = "list_models" =>
        /\ Len(ModelLines) = Len(yielded)
        /\ \A i \in 1..Len(yielded) : ModelLines[i].args[3] = FirstExposed(yielded[i])

\* C7: dump_env_vars() logs the five default variables, dump_env_vars(*names)
\* exactly the names given, one line per name in the given order, a variable
\* that is not set shown as None; it raises nothing and leaves the environment
\* as it was.
C7_DumpLogsExactlyTheNames ==
    /\ [](  (entry = "dump_env_vars" /\ pc = "done") =>
              LET used == IF Len(names) = 0
                          THEN << "GOOGLE_GENAI_USE_VERTEXAI", "GOOGLE_CLOUD_PROJECT",
                                  "GOOGLE_CLOUD_LOCATION",
                                  "GOOGLE_APPLICATION_CREDENTIALS", "GOOGLE_API_KEY" >>
                          ELSE names
              IN /\ outcome = ReturnNone
                 /\ Len(log) = Len(used) + 1
                 /\ log[1].msg = "Environment variables:"
                 /\ \A i \in 1..Len(used) :
                      /\ log[i + 1].lvl = "INFO"
                      /\ log[i + 1].args[1] = used[i]
                      /\ log[i + 1].args[2] =
                           IF used[i] \in DOMAIN env THEN env[used[i]] ELSE None )
    /\ [][entry = "dump_env_vars" => env' = env]_vars

C7_Witness ==
    /\ entry = "dump_env_vars" /\ pc = "done"
    /\ names = << "HOME", "GOOGLE_API_KEY" >>
    /\ env["HOME"] = <<"x">> /\ env["GOOGLE_API_KEY"] = None
    /\ Len(log) = 3
    /\ log[2].args = << "HOME", <<"x">> >>
    /\ log[3].args = << "GOOGLE_API_KEY", None >>

\* C8 as stated: project is the --project value if given and non-empty, else
\* $GOOGLE_CLOUD_PROJECT if non-empty, else the project credential resolution
\* inferred; location is the --location value if given, else
\* $GOOGLE_CLOUD_LOCATION if set, else "us-west2".
C8_ClaimedPrecedence ==
    entry = "main" =>
        \A i \in CallsOf("list_models") :
            /\ calls[i][2] =
                 IF argv.project # None /\ argv.project # <<>> THEN argv.project
                 ELSE IF ~Falsy(env["GOOGLE_CLOUD_PROJECT"])
                      THEN env["GOOGLE_CLOUD_PROJECT"]
                      ELSE adc_project
            /\ calls[i][3] =
                 IF argv.location # None THEN argv.location
                 ELSE IF env["GOOGLE_CLOUD_LOCATION"] # None
                      THEN env["GOOGLE_CLOUD_LOCATION"]
                      ELSE UsWest2

\* C8 as amended: $GOOGLE_CLOUD_PROJECT is only the default of --project: project
\* is the --project value if the flag is given and non-empty, the inferred
\* project if the flag is given and empty; without the flag it is
\* $GOOGLE_CLOUD_PROJECT if non-empty, else the inferred project.  Location as
\* stated.  With GOOGLE_CLOUD_PROJECT=demo, GOOGLE_CLOUD_LOCATION unset and no
\* flags the catalog is queried with project "demo" and location "us-west2".
C8_FlagThenEnvDefault ==
    entry = "main" =>
        \A i \in CallsOf("list_models") :
            /\ calls[i][2] =
                 IF argv.project # None
                 THEN (IF argv.project # <<>> THEN argv.project ELSE adc_project)
                 ELSE IF ~Falsy(env["GOOGLE_CLOUD_PROJECT"])
                      THEN env["GOOGLE_CLOUD_PROJECT"]
                      ELSE adc_project
            /\ calls[i][3] =
                 IF argv.location # None THEN argv.location
                 ELSE IF env["GOOGLE_CLOUD_LOCATION"] # None
                      THEN env["GOOGLE_CLOUD_LOCATION"]
                      ELSE UsWest2
            /\ ( /\ env["GOOGLE_CLOUD_PROJECT"] = Demo
                 /\ env["GOOGLE_CLOUD_LOCATION"] = None
                 /\ argv.project = None /\ argv.location = None )
               => (calls[i][2] = Demo /\ calls[i][3] = UsWest2)

C8_Witness ==
    /\ entry = "main" /\ pc = "done"
    /\ argv.project = <<>> /\ argv.location = None
    /\ env["GOOGLE_CLOUD_PROJECT"] = Demo /\ env["GOOGLE_CLOUD_LOCATION"] = EnvLocation
    /\ \E i \in CallsOf("list_models") :
         calls[i][2] = AdcProject /\ calls[i][3] = EnvLocation

Rank(step) ==
    CASE step = "google.auth.default" -> 1
      [] step = "describe_credentials" -> 2
      [] step = "dump_env_vars" -> 3
      [] step = "refresh" -> 4
      [] step = "list_models" -> 5

\* C9: in every run of main() the external steps occur in the order resolve
\* credentials, classify, resolve project, dump environment, refresh, list
\* models, return; each is invoked at most once, and main() returns or raises
\* only after the steps it invoked.
C9_FixedOrder ==
    entry = "main" =>
        /\ \A i, j \in 1..Len(calls) : i < j => Rank(calls[i][1]) < Rank(calls[j][1])
        /\ CallsOf("describe_credentials") # {} => creds # ""
        /\ CallsOf("dump_env_vars") # {} =>
             (CallsOf("describe_credentials") # {} /\ ~Falsy(project))
        /\ CallsOf("refresh") # {} => CallsOf("dump_env_vars") # {}
        /\ CallsOf("list_models") # {} => CallsOf("refresh") # {}
        /\ outcome.kind # "running" <=> pc = "done"
        /\ pc = "return" => CallsOf("list_models") # {}

C9_Witness ==
    /\ entry = "main" /\ pc = "done"
    /\ outcome = Return(0)
    /\ Len(calls) = 5
    /\ raised.refresh = "RefreshError" /\ raised.list = "APIError"

VertexEnv == env["GOOGLE_GENAI_USE_VERTEXAI"]

\* the backend selector as C10 states it
ClaimedSelector ==
    \/ argv.vertexai
    \/ VertexEnv = None
    \/ Lower(VertexEnv) \in { <<"1">>, <<"t","r","u","e">>, <<"y","e","s">> }

\* C10 as stated: the selector passed to the catalog client is true when
\* --vertexai is given or $GOOGLE_GENAI_USE_VERTEXAI is unset or one of "1",
\* "true", "yes" in any case, false otherwise; and in every environment each of
\* the two backends is chosen by some command line.
C10_BothBackendsSelectable ==
    entry = "main" =>
        /\ \A i \in CallsOf("list_models") : calls[i][4] = ClaimedSelector
        /\ pc = "parse_args" =>
             \A backend \in BOOLEAN :
                 \E av \in Argvs : ~av.unknown /\ ParseArgs(av, env).vertexai = backend

\* C10 as amended: the selector is as stated; the Vertex AI backend is chosen by
\* some command line in every environment, the direct API backend only in an
\* environment where $GOOGLE_GENAI_USE_VERTEXAI is set to a value other than
\* "1", "true", "yes" (in any case), and then only without --vertexai.
C10_SelectorRule ==
    entry = "main" =>
        /\ \A i \in CallsOf("list_models") : calls[i][4] = ClaimedSelector
        /\ pc = "parse_args" =>
             /\ \E av \in Argvs : ~av.unknown /\ ParseArgs(av, env).vertexai
             /\ \A av \in Argvs :
                  (~av.unknown /\ ~ParseArgs(av, env).vertexai) =>
                      /\ ~av.vertexai
                      /\ VertexEnv # None
                      /\ Lower(VertexEnv) \notin { <<"1">>, <<"t","r","u","e">>, <<"y","e","s">> }
             /\ (VertexEnv # None /\ Lower(VertexEnv) \notin
                     { <<"1">>, <<"t","r","u","e">>, <<"y","e","s">> }) =>
                  \E av \in Argvs : ~av.unknown /\ ~ParseArgs(av, env).vertexai

C10_Witness ==
    /\ entry = "main" /\ pc = "done"
    /\ VertexEnv = <<"Y","E","S">> /\ ~argv.vertexai
    /\ \E i \in CallsOf("list_models") : calls[i][4] = TRUE

====
